---- MODULE Spec2Model ----
(***************************************************************************)
(* A model of the WeensyOS kernel of Assign4/kernel.c: the physical page   *)
(* ledger (pageinfo), the two-level page tables kept in physical memory,   *)
(* the process table, process creation, fork, exit and the exception       *)
(* dispatcher with its round-robin scheduler.                              *)
(*                                                                         *)
(* Addresses are kept in bytes (PAGESIZE = 4096); physical memory is       *)
(* scaled down to NPAGES pages and the process table to NPROC slots.       *)
(* A physical page holds WORDS words; a word is an integer, decoded the    *)
(* way a page table entry is: a page address ored with flag bits.          *)
(* The tick counter is left out: it is read only by the console animation. *)
(*                                                                         *)
(* The module also holds a model of the pong client of Assign2/io61.c: the *)
(* main loop that creates one thread per position, the threads, the        *)
(* connection pool and the condition variable between them.  The two       *)
(* programs share no state: each leaves the other's variables alone.       *)
(***************************************************************************)
EXTENDS Integers, Sequences, FiniteSets, TLC

\* ------------------------------------------------------------------------
\* Bounds of the model (the scaled-down machine)
\* ------------------------------------------------------------------------
NPROC == 4              \* process slots, slot 0 unused (16 in the kernel)
LowFreePages == 3       \* free physical pages below the kernel image
BootProcs == 2          \* processes set up by the default boot command
MaxForks == 2           \* fork traps taken in one run
MaxAllocs == 3          \* page-allocate traps taken in one run
MaxFaults == 1          \* user-mode page faults taken in one run
MaxRefForks == 130      \* fork traps taken in one run of the reference-count runs
MAXCONNECT == 2         \* slots of the connection pool (30 in the client)
MAXTHREADS == 2         \* pong threads alive at once (30 in the client)
MaxPongs == 3           \* pong threads created in one run
MaxConnects == 3        \* connections opened in one run

\* ------------------------------------------------------------------------
\* Program constants
\* ------------------------------------------------------------------------
PAGESIZE == 4096
PO_FREE == 0
PO_RESERVED == -1
PO_KERNEL == -2

PTE_P == 1
PTE_W == 2
PTE_U == 4

P_FREE == "P_FREE"
P_RUNNABLE == "P_RUNNABLE"
P_BLOCKED == "P_BLOCKED"
P_BROKEN == "P_BROKEN"

NULL == 0

\* the register value a process traps with when eax carries no argument
NoArg == 0

\* ------------------------------------------------------------------------
\* Physical and virtual layout, in pages:
\*   0                      reserved (null page)
\*   1 .. LowFreePages      free base memory
\*   KernelL1Pn, KernelL2Pn kernel data: the kernel's page table
\*   ConsolePn              reserved I/O memory: the console
\*   PROC_START_PN ..       free memory
\* ------------------------------------------------------------------------
HighFreePages == 4 * BootProcs
KernelL1Pn == LowFreePages + 1
KernelL2Pn == LowFreePages + 2
ConsolePn == LowFreePages + 3
PROC_START_PN == LowFreePages + 4
NPAGES == PROC_START_PN + HighFreePages
NVPAGES == NPAGES + 2
WORDS == NVPAGES

MEMSIZE_PHYSICAL == NPAGES * PAGESIZE
MEMSIZE_VIRTUAL == NVPAGES * PAGESIZE
PROC_START_ADDR == PROC_START_PN * PAGESIZE
kernel_pagetable == KernelL1Pn * PAGESIZE
console == ConsolePn * PAGESIZE

PAGENUMBER(addr) == addr \div PAGESIZE
PAGEADDRESS(pn) == pn * PAGESIZE
PAGEOFFSET(addr) == addr % PAGESIZE
L1PAGEINDEX(addr) == PAGENUMBER(addr) \div 1024
L2PAGEINDEX(addr) == PAGENUMBER(addr) % 1024

Pages == 0 .. (NPAGES - 1)
Pids == 0 .. (NPROC - 1)
PrivateVas == { PAGEADDRESS(n) : n \in PROC_START_PN .. (NVPAGES - 1) }

\* int8_t arithmetic of the ledger fields
Int8(x) == ((x + 128) % 256) - 128

\* ------------------------------------------------------------------------
\* Memory words and pages
\* ------------------------------------------------------------------------
DataWords == {0, 1}
ZeroPage == [i \in 0 .. (WORDS - 1) |-> 0]

\* With(v, LAMBDA x : e) is e with x = v, v being computed once
With(v, F(_)) == CHOOSE y \in { F(x) : x \in {v} } : TRUE

\* w & bit, for a single flag bit
Has(w, bit) == (w \div bit) % 2 = 1
PTE_ADDR(w) == (w \div PAGESIZE) * PAGESIZE
PTE_FLAGS(w) == w % PAGESIZE

VARIABLES
    pageinfo,       \* pageinfo[pn] = [owner, refcount]
    underflow,      \* TRUE once pageinfo[-1] has been written
    mem,            \* mem[pn] = the WORDS words of physical page pn
    processes,      \* processes[pid] = [p_pid, p_state, p_pagetable, reg_eax, reg_esp]
    current,        \* pid of the current process
    mode,           \* "run": a process runs; "spin": schedule() spins; "panic"
    related,        \* pids that took part in a successful fork since their creation
    forks,          \* number of fork traps so far
    allocs,         \* number of page-allocate traps so far
    faults,         \* number of user-mode page faults so far
    last            \* the latest trap handled: [trap, valid], where trap names a
                    \* trap that can change the ledger (else "other") and valid
                    \* tells whether a page-allocate carried a valid address
                    \* (for a direct call of an allocator: whether it returned 0)

vars == <<pageinfo, underflow, mem, processes, current, mode, related,
          forks, allocs, faults, last>>

\* the pong client
VARIABLES
    connectionpool, \* connectionpool[i] = the connection of slot i, or NULL
    connections,    \* connections[c] = [fd, state, status_code] of the
                    \* http_connection object c; fd is "none" before
                    \* http_connect makes the object, then "open", then "closed"
    threads,        \* threads[t] = [pc, conn, connstat] of pong thread t
    threadcnt,      \* count of pong threads alive
    main            \* main = [pc, pt]: the main thread's position and the
                    \* number of the thread it created last

pong_vars == <<connectionpool, connections, threads, threadcnt, main>>

HTTP_REQUEST == 0
HTTP_INITIAL == 1
HTTP_BODY == 3
HTTP_DONE == -1
HTTP_CLOSED == -2
HTTP_BROKEN == -3

PongThreads == 1 .. MaxPongs
ConnIds == 1 .. MaxConnects

\* the client's globals as main() leaves them before its loop
PongGlobals ==
    /\ connectionpool = [i \in 0 .. (MAXCONNECT - 1) |-> NULL]
    /\ connections = [c \in ConnIds |->
                         [fd |-> "none", state |-> HTTP_REQUEST, status_code |-> 0]]
    /\ threads = [t \in PongThreads |-> [pc |-> "none", conn |-> NULL, connstat |-> -1]]
    /\ threadcnt = 0

\* the client is not running
PongOff == PongGlobals /\ main = [pc |-> "off", pt |-> 0]

\* ------------------------------------------------------------------------
\* Hardware collaborators (k-hardware.c), modelled from their contract
\* ------------------------------------------------------------------------
physical_memory_isreserved(addr) ==
    addr = NULL \/ PAGENUMBER(addr) = ConsolePn

\* walk the two levels; the unmapped result is pn = -1, pa = (uintptr_t) -1
\* (written -1 here: it equals no page address), perm = 0
virtual_memory_lookup(m, pagetable, va) ==
    With(m[PAGENUMBER(pagetable)][L1PAGEINDEX(va)], LAMBDA pe1 :
    With(IF Has(pe1, PTE_P) THEN m[PAGENUMBER(pe1)][L2PAGEINDEX(va)] ELSE 0, LAMBDA pe :
        IF Has(pe, PTE_P)
        THEN [pn |-> PAGENUMBER(pe), pa |-> PTE_ADDR(pe) + PAGEOFFSET(va),
              perm |-> PTE_FLAGS(pe)]
        ELSE [pn |-> -1, pa |-> -1, perm |-> 0]))

\* install sz / PAGESIZE entries va -> pa in the level-2 table of pagetable
virtual_memory_map(m, pagetable, va, pa, sz, perm) ==
    With(PAGENUMBER(m[PAGENUMBER(pagetable)][L1PAGEINDEX(va)]), LAMBDA l2 :
    With(L2PAGEINDEX(va), LAMBDA first :
    With(sz \div PAGESIZE, LAMBDA n :
        [m EXCEPT ![l2] =
            [i \in 0 .. (WORDS - 1) |->
                IF i >= first /\ i < first + n
                THEN IF Has(perm, PTE_P)
                     THEN (pa + (i - first) * PAGESIZE) + perm
                     ELSE perm
                ELSE m[l2][i]]])))

\* hardware_init: the kernel page table maps all physical memory to itself
hardware_init_mem ==
    [pn \in Pages |->
        IF pn = KernelL1Pn
        THEN [ZeroPage EXCEPT ![0] = PAGEADDRESS(KernelL2Pn) + PTE_P + PTE_W + PTE_U]
        ELSE IF pn = KernelL2Pn
        THEN [i \in 0 .. (WORDS - 1) |->
                IF i < NPAGES THEN PAGEADDRESS(i) + PTE_P + PTE_W + PTE_U ELSE 0]
        ELSE ZeroPage]

\* ------------------------------------------------------------------------
\* kernel.c: the ledger
\* ------------------------------------------------------------------------
pageinfo_init ==
    [pn \in Pages |->
        LET owner == IF physical_memory_isreserved(PAGEADDRESS(pn)) THEN PO_RESERVED
                     ELSE IF pn = KernelL1Pn \/ pn = KernelL2Pn THEN PO_KERNEL
                     ELSE PO_FREE
        IN  [owner |-> owner, refcount |-> IF owner # PO_FREE THEN 1 ELSE 0]]

\* a slot search that also takes the slot of a process that is not runnable
find_free_process_slot_idle(procs) ==
    IF \E i \in 1 .. (NPROC - 1) : procs[i].p_state # P_RUNNABLE
    THEN CHOOSE i \in 1 .. (NPROC - 1) :
            /\ procs[i].p_state # P_RUNNABLE
            /\ \A j \in 1 .. (i - 1) : procs[j].p_state = P_RUNNABLE
    ELSE -1

\* a slot search that scans from the highest slot down
find_free_process_slot_last(procs) ==
    IF \E i \in 1 .. (NPROC - 1) : procs[i].p_state = P_FREE
    THEN CHOOSE i \in 1 .. (NPROC - 1) :
            /\ procs[i].p_state = P_FREE
            /\ \A j \in (i + 1) .. (NPROC - 1) : procs[j].p_state # P_FREE
    ELSE -1

\* a slot search that returns the last slot it looked at when none is free
find_free_process_slot_full(procs) ==
    IF \E i \in 1 .. (NPROC - 1) : procs[i].p_state = P_FREE
    THEN CHOOSE i \in 1 .. (NPROC - 1) :
            /\ procs[i].p_state = P_FREE
            /\ \A j \in 1 .. (i - 1) : procs[j].p_state # P_FREE
    ELSE NPROC - 1

\* a slot search that starts at slot 0
find_free_process_slot_zero(procs) ==
    IF \E i \in Pids : procs[i].p_state = P_FREE
    THEN CHOOSE i \in Pids :
            /\ procs[i].p_state = P_FREE
            /\ \A j \in 0 .. (i - 1) : procs[j].p_state # P_FREE
    ELSE -1

find_free_process_slot(procs) ==
    IF \E i \in 1 .. (NPROC - 1) : procs[i].p_state = P_FREE
    THEN CHOOSE i \in 1 .. (NPROC - 1) :
            /\ procs[i].p_state = P_FREE
            /\ \A j \in 1 .. (i - 1) : procs[j].p_state # P_FREE
    ELSE -1

\* a scan that stops one page short of the end of the ledger
find_free_physical_page_short(pi) ==
    IF \E i \in 0 .. (NPAGES - 2) : pi[i].owner = 0 /\ pi[i].refcount = 0
    THEN PAGEADDRESS(CHOOSE i \in 0 .. (NPAGES - 2) :
            /\ pi[i].owner = 0 /\ pi[i].refcount = 0
            /\ \A j \in 0 .. (i - 1) : ~(pi[j].owner = 0 /\ pi[j].refcount = 0))
    ELSE NULL

\* a scan from the top of the ledger down
find_free_physical_page_last(pi) ==
    IF \E i \in Pages : pi[i].owner = 0 /\ pi[i].refcount = 0
    THEN PAGEADDRESS(CHOOSE i \in Pages :
            /\ pi[i].owner = 0 /\ pi[i].refcount = 0
            /\ \A j \in (i + 1) .. (NPAGES - 1) : ~(pi[j].owner = 0 /\ pi[j].refcount = 0))
    ELSE NULL

\* a search that also takes the pages of the kernel
find_free_physical_page_kernel(pi) ==
    IF \E i \in Pages : pi[i].owner = PO_KERNEL \/ (pi[i].owner = 0 /\ pi[i].refcount = 0)
    THEN PAGEADDRESS(CHOOSE i \in Pages :
            /\ pi[i].owner = PO_KERNEL \/ (pi[i].owner = 0 /\ pi[i].refcount = 0)
            /\ \A j \in 0 .. (i - 1) :
                  ~(pi[j].owner = PO_KERNEL \/ (pi[j].owner = 0 /\ pi[j].refcount = 0)))
    ELSE NULL

find_free_physical_page(pi) ==
    IF \E i \in Pages : pi[i].owner = 0 /\ pi[i].refcount = 0
    THEN PAGEADDRESS(CHOOSE i \in Pages :
            /\ pi[i].owner = 0 /\ pi[i].refcount = 0
            /\ \A j \in 0 .. (i - 1) : ~(pi[j].owner = 0 /\ pi[j].refcount = 0))
    ELSE NULL

\* returns [r, pageinfo]
\* an allocation that does not look at the refcount
physical_page_alloc_any(pi, addr, owner) ==
    IF addr % PAGESIZE # 0
       \/ addr >= MEMSIZE_PHYSICAL
    THEN [r |-> -1, pageinfo |-> pi]
    ELSE [r |-> 0,
          pageinfo |-> [pi EXCEPT ![PAGENUMBER(addr)] = [owner |-> owner, refcount |-> 1]]]

physical_page_alloc(pi, addr, owner) ==
    IF addr % PAGESIZE # 0
       \/ addr >= MEMSIZE_PHYSICAL
       \/ pi[PAGENUMBER(addr)].refcount # 0
    THEN [r |-> -1, pageinfo |-> pi]
    ELSE [r |-> 0,
          pageinfo |-> [pi EXCEPT ![PAGENUMBER(addr)] = [owner |-> owner, refcount |-> 1]]]

\* returns [addr, pageinfo]
alloc_free_page(pi, owner) ==
    With(find_free_physical_page(pi), LAMBDA pg_addr :
        IF pg_addr = NULL
        THEN [addr |-> NULL, pageinfo |-> pi]
        ELSE With(physical_page_alloc(pi, pg_addr, owner), LAMBDA a :
                 IF a.r = -1
                 THEN [addr |-> NULL, pageinfo |-> a.pageinfo]
                 ELSE [addr |-> pg_addr, pageinfo |-> a.pageinfo]))

\* a copy that stops one entry short of the private region
copy_pagetable_short(pi, m, pagetable, owner) ==
    With(alloc_free_page(pi, owner), LAMBDA a1 :
        IF a1.addr = NULL
        THEN [pt |-> NULL, pageinfo |-> a1.pageinfo, mem |-> m]
        ELSE
    With(alloc_free_page(a1.pageinfo, owner), LAMBDA a2 :
        IF a2.addr = NULL
        THEN [pt |-> NULL, pageinfo |-> a2.pageinfo, mem |-> m]
        ELSE
    With(PTE_ADDR(m[PAGENUMBER(pagetable)][0]), LAMBDA kptl20 :
    With([ZeroPage EXCEPT ![0] = a2.addr + PTE_P + PTE_W + PTE_U], LAMBDA l1 :
    With([i \in 0 .. (WORDS - 1) |->
             IF i < PAGENUMBER(PROC_START_ADDR) - 1 THEN m[PAGENUMBER(kptl20)][i] ELSE 0],
         LAMBDA l2 :
        [pt |-> a1.addr, pageinfo |-> a2.pageinfo,
         mem |-> [m EXCEPT ![PAGENUMBER(a1.addr)] = l1,
                           ![PAGENUMBER(a2.addr)] = l2]])))))

\* returns [pt, pageinfo, mem]; pt = NULL when an allocation failed
copy_pagetable(pi, m, pagetable, owner) ==
    With(alloc_free_page(pi, owner), LAMBDA a1 :
        IF a1.addr = NULL
        THEN [pt |-> NULL, pageinfo |-> a1.pageinfo, mem |-> m]
        ELSE
    With(alloc_free_page(a1.pageinfo, owner), LAMBDA a2 :
        IF a2.addr = NULL
        THEN [pt |-> NULL, pageinfo |-> a2.pageinfo, mem |-> m]
        ELSE
    With(PTE_ADDR(m[PAGENUMBER(pagetable)][0]), LAMBDA kptl20 :
    With([ZeroPage EXCEPT ![0] = a2.addr + PTE_P + PTE_W + PTE_U], LAMBDA l1 :
    With([i \in 0 .. (WORDS - 1) |->
             IF i < PAGENUMBER(PROC_START_ADDR) THEN m[PAGENUMBER(kptl20)][i] ELSE 0],
         LAMBDA l2 :
        [pt |-> a1.addr, pageinfo |-> a2.pageinfo,
         mem |-> [m EXCEPT ![PAGENUMBER(a1.addr)] = l1,
                           ![PAGENUMBER(a2.addr)] = l2]])))))

\* lowest RUNNABLE pid whose page table maps pagenum at one of the first
\* NPAGES virtual pages, or -1
find_page_owner(procs, m, pagenum) ==
    LET refs(pid) ==
            /\ procs[pid].p_state = P_RUNNABLE
            /\ \E k \in 0 .. (NPAGES - 1) :
                  virtual_memory_lookup(m, procs[pid].p_pagetable, PAGEADDRESS(k)).pa
                      = PAGEADDRESS(pagenum)
    IN  IF \E pid \in 1 .. (NPROC - 1) : refs(pid)
        THEN CHOOSE pid \in 1 .. (NPROC - 1) :
                refs(pid) /\ \A q \in 1 .. (pid - 1) : ~refs(q)
        ELSE -1

\* returns [pageinfo, processes]
\* the pages for which free_current_process takes its orphan branch: owned
\* by the slot with refcount above 1 and no new owner found
free_current_process_orphans(pi, m, procs, slot) ==
    { i \in Pages :
        /\ pi[i].owner = procs[slot].p_pid
        /\ pi[i].refcount > 1
        /\ find_page_owner([procs EXCEPT ![slot].p_state = P_BLOCKED], m, i) = -1 }

\* the pages for which free_current_process takes its third branch: owned by
\* the slot with a refcount that is not positive
free_current_process_unreferenced(pi, procs, slot) ==
    { i \in Pages : pi[i].owner = procs[slot].p_pid /\ pi[i].refcount <= 0 }

\* a release that leaves the slot blocked
free_current_process_blocked(pi, m, procs, slot) ==
    LET blocked == [procs EXCEPT ![slot].p_state = P_BLOCKED]
        p_pid == procs[slot].p_pid
        freed(i) ==
            LET refcount == pi[i].refcount
                new_owner == find_page_owner(blocked, m, i)
            IN  IF refcount > 1
                THEN IF new_owner # -1
                     THEN [owner |-> new_owner, refcount |-> Int8(refcount - 1)]
                     ELSE [owner |-> PO_FREE, refcount |-> 0]
                ELSE IF refcount = 1
                THEN [owner |-> PO_FREE, refcount |-> Int8(refcount - 1)]
                ELSE [owner |-> PO_FREE, refcount |-> refcount]
    IN  [pageinfo |-> [i \in Pages |-> IF pi[i].owner = p_pid THEN freed(i) ELSE pi[i]],
         processes |-> blocked]

\* a release that drops the last reference and keeps the owner
free_current_process_keep(pi, m, procs, slot) ==
    LET blocked == [procs EXCEPT ![slot].p_state = P_BLOCKED]
        p_pid == procs[slot].p_pid
        freed(i) ==
            LET refcount == pi[i].refcount
                new_owner == find_page_owner(blocked, m, i)
            IN  IF refcount > 1
                THEN IF new_owner # -1
                     THEN [owner |-> new_owner, refcount |-> Int8(refcount - 1)]
                     ELSE [owner |-> PO_FREE, refcount |-> 0]
                ELSE IF refcount = 1
                THEN [owner |-> pi[i].owner, refcount |-> Int8(refcount - 1)]
                ELSE [owner |-> PO_FREE, refcount |-> refcount]
    IN  [pageinfo |-> [i \in Pages |-> IF pi[i].owner = p_pid THEN freed(i) ELSE pi[i]],
         processes |-> [blocked EXCEPT ![slot].p_state = P_FREE]]

\* a release that also frees the pages its process shares with their owners
free_current_process_shared(pi, m, procs, slot) ==
    LET blocked == [procs EXCEPT ![slot].p_state = P_BLOCKED]
        p_pid == procs[slot].p_pid
        freed(i) ==
            LET refcount == pi[i].refcount
                new_owner == find_page_owner(blocked, m, i)
            IN  IF refcount > 1
                THEN IF new_owner # -1
                     THEN [owner |-> new_owner, refcount |-> Int8(refcount - 1)]
                     ELSE [owner |-> PO_FREE, refcount |-> 0]
                ELSE IF refcount = 1
                THEN [owner |-> PO_FREE, refcount |-> Int8(refcount - 1)]
                ELSE [owner |-> PO_FREE, refcount |-> refcount]
    IN  [pageinfo |-> [i \in Pages |->
                          IF pi[i].owner = p_pid \/ (pi[i].owner >= 1 /\ pi[i].refcount > 1)
                          THEN freed(i) ELSE pi[i]],
         processes |-> [blocked EXCEPT ![slot].p_state = P_FREE]]

free_current_process(pi, m, procs, slot) ==
    LET blocked == [procs EXCEPT ![slot].p_state = P_BLOCKED]
        p_pid == procs[slot].p_pid
        freed(i) ==
            LET refcount == pi[i].refcount
                new_owner == find_page_owner(blocked, m, i)
            IN  IF refcount > 1
                THEN IF new_owner # -1
                     THEN [owner |-> new_owner, refcount |-> Int8(refcount - 1)]
                     ELSE [owner |-> PO_FREE, refcount |-> 0]
                ELSE IF refcount = 1
                THEN [owner |-> PO_FREE, refcount |-> Int8(refcount - 1)]
                ELSE [owner |-> PO_FREE, refcount |-> refcount]
    IN  [pageinfo |-> [i \in Pages |-> IF pi[i].owner = p_pid THEN freed(i) ELSE pi[i]],
         processes |-> [blocked EXCEPT ![slot].p_state = P_FREE]]

\* ------------------------------------------------------------------------
\* The program loader (k-loader.c), modelled from its contract: every
\* program image is one read-only text page at PROC_START_ADDR; the loader
\* takes a free physical page for it, charged to the process, and maps it
\* user-accessible.  Returns [r, pageinfo, mem].
\* ------------------------------------------------------------------------
ProgramImage(program_number) ==
    << [va |-> PROC_START_ADDR, perm |-> PTE_P + PTE_U] >>

RECURSIVE program_load_segment(_, _, _, _, _)
program_load_segment(pi, m, p, segs, k) ==
    IF k > Len(segs)
    THEN [r |-> 0, pageinfo |-> pi, mem |-> m]
    ELSE With(alloc_free_page(pi, p.p_pid), LAMBDA a :
             IF a.addr = NULL
             THEN [r |-> -1, pageinfo |-> a.pageinfo, mem |-> m]
             ELSE With(virtual_memory_map(
                           [m EXCEPT ![PAGENUMBER(a.addr)] = ZeroPage],
                           p.p_pagetable, segs[k].va, a.addr, PAGESIZE, segs[k].perm),
                       LAMBDA mapped :
                           program_load_segment(a.pageinfo, mapped, p, segs, k + 1)))

program_load(pi, m, p, program_number) ==
    program_load_segment(pi, m, p, ProgramImage(program_number), 1)

\* process_init: the saved registers start zeroed
process_init(p) == [p EXCEPT !.reg_eax = 0, !.reg_esp = 0]

\* ------------------------------------------------------------------------
\* kernel.c: process creation.  K is the kernel state
\* [pageinfo, mem, processes, panic].
\* ------------------------------------------------------------------------
\* a set-up that maps the stack page at the stack pointer, not below it
process_setup_above(K, pid, program_number) ==
    With(copy_pagetable(K.pageinfo, K.mem, kernel_pagetable, pid), LAMBDA cp :
    With([process_init(K.processes[pid]) EXCEPT !.p_pagetable = cp.pt], LAMBDA p1 :
    With([cp.pageinfo EXCEPT ![PAGENUMBER(cp.pt)].refcount = 1], LAMBDA pi1 :
    With(program_load(pi1, cp.mem, p1, program_number), LAMBDA ld :
        IF ld.r < 0
        THEN [K EXCEPT !.panic = TRUE]
        ELSE
    With([p1 EXCEPT !.reg_esp = MEMSIZE_VIRTUAL], LAMBDA p2 :
    With(alloc_free_page(ld.pageinfo, pid), LAMBDA st :
    With(virtual_memory_map(ld.mem, p2.p_pagetable, p2.reg_esp,
                            st.addr, PAGESIZE, PTE_P + PTE_W + PTE_U), LAMBDA m2 :
        [pageinfo |-> st.pageinfo, mem |-> m2,
         processes |-> [K.processes EXCEPT ![pid] = [p2 EXCEPT !.p_state = P_RUNNABLE]],
         panic |-> K.panic])))))))

process_setup(K, pid, program_number) ==
    With(copy_pagetable(K.pageinfo, K.mem, kernel_pagetable, pid), LAMBDA cp :
    With([process_init(K.processes[pid]) EXCEPT !.p_pagetable = cp.pt], LAMBDA p1 :
    With([cp.pageinfo EXCEPT ![PAGENUMBER(cp.pt)].refcount = 1], LAMBDA pi1 :
    With(program_load(pi1, cp.mem, p1, program_number), LAMBDA ld :
        IF ld.r < 0
        THEN [K EXCEPT !.panic = TRUE]
        ELSE
    With([p1 EXCEPT !.reg_esp = MEMSIZE_VIRTUAL], LAMBDA p2 :
    With(alloc_free_page(ld.pageinfo, pid), LAMBDA st :
    With(virtual_memory_map(ld.mem, p2.p_pagetable, p2.reg_esp - PAGESIZE,
                            st.addr, PAGESIZE, PTE_P + PTE_W + PTE_U), LAMBDA m2 :
        [pageinfo |-> st.pageinfo, mem |-> m2,
         processes |-> [K.processes EXCEPT ![pid] = [p2 EXCEPT !.p_state = P_RUNNABLE]],
         panic |-> K.panic])))))))

RECURSIVE setup_default(_, _)
setup_default(K, i) ==
    IF i > BootProcs THEN K
    ELSE With(process_setup(K, i, i - 1), LAMBDA K1 : setup_default(K1, i + 1))

BootCommands == {"fork", "forkexit", "default"}

\* kernel(command) up to the first run()
kernel(command) ==
    With([i \in Pids |->
            [p_pid |-> i, p_state |-> P_FREE, p_pagetable |-> NULL,
             reg_eax |-> 0, reg_esp |-> 0]], LAMBDA procs0 :
    With(virtual_memory_map(hardware_init_mem, kernel_pagetable, 0, 0,
                            PROC_START_ADDR, PTE_P + PTE_W), LAMBDA m0 :
    With(virtual_memory_map(m0, kernel_pagetable, console, console,
                            PAGESIZE, PTE_P + PTE_W + PTE_U), LAMBDA m1 :
    With([pageinfo |-> pageinfo_init, mem |-> m1, processes |-> procs0,
          panic |-> FALSE], LAMBDA K0 :
        IF command = "fork" THEN process_setup(K0, 1, 4)
        ELSE IF command = "forkexit" THEN process_setup(K0, 1, 5)
        ELSE setup_default(K0, 1)))))

Boot(commands) ==
    \E command \in commands :
        \E K \in { kernel(command) } :
            /\ pageinfo = K.pageinfo
            /\ underflow = FALSE
            /\ mem = K.mem
            /\ processes = K.processes
            /\ current = 1
            /\ mode = IF K.panic \/ K.processes[1].p_state # P_RUNNABLE
                      THEN "panic" ELSE "run"
            /\ related = {}
            /\ forks = 0
            /\ allocs = 0
            /\ faults = 0
            /\ last = [trap |-> "boot", valid |-> FALSE]

Init == Boot(BootCommands) /\ PongOff

\* ------------------------------------------------------------------------
\* kernel.c: fork.  The copy loop over the private region, from va on.
\* Returns [ok, pageinfo, mem, underflow].
\* ------------------------------------------------------------------------
\* a fork that takes no page for writable: it shares every page
writable_never(vam) == FALSE

\* the test that selects the pages fork copies: present and writable
writable(vam) == vam.perm # 0 /\ Has(vam.perm, PTE_W)

\* memcpy(dst, src, PAGESIZE) between two physical pages
memcpy(m, dst, src) == [m EXCEPT ![PAGENUMBER(dst)] = m[PAGENUMBER(src)]]

RECURSIVE fork_copy(_, _, _, _, _, _, _)
fork_copy(pi, m, uf, parent_pt, chld_pt, chld_pid, va) ==
    IF va >= MEMSIZE_VIRTUAL
    THEN [ok |-> TRUE, pageinfo |-> pi, mem |-> m, underflow |-> uf]
    ELSE With(virtual_memory_lookup(m, parent_pt, va), LAMBDA vam :
             IF writable(vam)
             THEN With(alloc_free_page(pi, chld_pid), LAMBDA a :
                      IF a.addr = NULL
                      THEN [ok |-> FALSE, pageinfo |-> a.pageinfo, mem |-> m,
                            underflow |-> uf]
                      ELSE With(virtual_memory_map(memcpy(m, a.addr, vam.pa),
                                    chld_pt, va, a.addr, PAGESIZE, vam.perm),
                                LAMBDA mapped :
                                    fork_copy(a.pageinfo, mapped, uf, parent_pt,
                                              chld_pt, chld_pid, va + PAGESIZE)))
             ELSE With(virtual_memory_map(m, chld_pt, va, vam.pa, PAGESIZE, vam.perm),
                       LAMBDA mapped :
                  With(IF vam.pn \in Pages
                       THEN [pi EXCEPT ![vam.pn].refcount = Int8(pi[vam.pn].refcount + 1)]
                       ELSE pi,
                       LAMBDA counted :
                           fork_copy(counted, mapped, uf \/ vam.pn \notin Pages,
                                     parent_pt, chld_pt, chld_pid, va + PAGESIZE))))

\* returns [ret, pageinfo, mem, processes, underflow]
fork_process(pi, m, procs, uf, cur) ==
    With(find_free_process_slot(procs), LAMBDA chld_pid :
        IF chld_pid = -1
        THEN [ret |-> chld_pid, pageinfo |-> pi, mem |-> m, processes |-> procs,
              underflow |-> uf]
        ELSE
    With(copy_pagetable(pi, m, procs[cur].p_pagetable, chld_pid), LAMBDA cp :
        IF cp.pt = NULL
        THEN With(free_current_process(cp.pageinfo, cp.mem, procs, chld_pid), LAMBDA f :
                 [ret |-> -1, pageinfo |-> f.pageinfo, mem |-> cp.mem,
                  processes |-> f.processes, underflow |-> uf])
        ELSE
    With([procs EXCEPT ![chld_pid].p_pagetable = cp.pt,
                       ![chld_pid].p_pid = chld_pid], LAMBDA procs1 :
    With(fork_copy(cp.pageinfo, cp.mem, uf, procs[cur].p_pagetable,
                   cp.pt, chld_pid, PROC_START_ADDR), LAMBDA lp :
        IF ~lp.ok
        THEN With(free_current_process(lp.pageinfo, lp.mem, procs1, chld_pid), LAMBDA f :
                 [ret |-> -1, pageinfo |-> f.pageinfo, mem |-> lp.mem,
                  processes |-> f.processes, underflow |-> lp.underflow])
        ELSE [ret |-> chld_pid, pageinfo |-> lp.pageinfo, mem |-> lp.mem,
              processes |-> [procs1 EXCEPT
                  ![chld_pid].reg_esp = procs[cur].reg_esp,
                  ![chld_pid].reg_eax = 0,
                  ![chld_pid].p_state = P_RUNNABLE],
              underflow |-> lp.underflow]))))

\* the values p_state of the slot takes, in order, while
\* free_current_process runs on it
free_current_process_states(procs, slot) ==
    <<procs[slot].p_state, P_BLOCKED, P_FREE>>

\* the values p_state of the child slot takes, in order, while fork_process
\* runs; empty when there is no child slot
fork_process_states(pi, m, procs, uf, cur) ==
    With(find_free_process_slot(procs), LAMBDA chld_pid :
        IF chld_pid = -1 THEN << >>
        ELSE IF fork_process(pi, m, procs, uf, cur).ret = -1
             THEN free_current_process_states(procs, chld_pid)
             ELSE <<procs[chld_pid].p_state, P_RUNNABLE>>)

\* ------------------------------------------------------------------------
\* kernel.c: the invariant checker; TRUE when no assertion fails
\* ------------------------------------------------------------------------
\* the number of references the checker expects on the kernel's level-1 table
expected_kernel_refcount(procs) ==
    1 + Cardinality({pid \in Pids : procs[pid].p_state # P_FREE
                        /\ procs[pid].p_pagetable = kernel_pagetable})

\* the assertions on the level-1 and level-2 tables of process pid, or of
\* the kernel for pid = -1
pagetable_check(pi, m, procs, pid) ==
    LET kern == pid < 0 \/ procs[pid].p_pagetable = kernel_pagetable
        pagetable == IF kern THEN kernel_pagetable ELSE procs[pid].p_pagetable
        expected_owner == IF kern THEN PO_KERNEL ELSE pid
        expected_refcount == IF kern THEN expected_kernel_refcount(procs) ELSE 1
    IN  /\ PAGEOFFSET(pagetable) = 0
        /\ PAGENUMBER(pagetable) < NPAGES
        /\ pi[PAGENUMBER(pagetable)].owner = expected_owner
        /\ pi[PAGENUMBER(pagetable)].refcount = expected_refcount
        /\ \A pn \in 0 .. (WORDS - 1) :
              LET pte == m[PAGENUMBER(pagetable)][pn]
              IN  Has(pte, PTE_P) =>
                    /\ PAGENUMBER(pte) < NPAGES
                    /\ pi[PAGENUMBER(pte)].owner = expected_owner
                    /\ pi[PAGENUMBER(pte)].refcount = 1

\* the assertion that every referenced page of a process names a process
\* that is not FREE
owner_check(pi, procs) ==
    \A pn \in Pages :
        (pi[pn].refcount > 0 /\ pi[pn].owner >= 0)
            => procs[pi[pn].owner].p_state # P_FREE

virtual_memory_check(pi, m, procs) ==
    /\ procs[0].p_state = P_FREE
    /\ \A pid \in -1 .. (NPROC - 1) :
          (pid >= 0 /\ procs[pid].p_state = P_FREE) \/ pagetable_check(pi, m, procs, pid)
    /\ owner_check(pi, procs)

\* ------------------------------------------------------------------------
\* kernel.c: the scheduler.  The pid handed to run(), or -1 when the scan
\* finds no runnable process and spins.
\* ------------------------------------------------------------------------
RECURSIVE schedule_scan(_, _, _)
schedule_scan(procs, pid, n) ==
    IF n = 0 THEN -1
    ELSE LET next == (pid + 1) % NPROC
         IN  IF procs[next].p_state = P_RUNNABLE THEN next
             ELSE schedule_scan(procs, next, n - 1)

\* a scheduler that goes back to the current process when its scan finds
\* nothing to run
schedule_or_current(procs, cur) ==
    IF schedule_scan(procs, procs[cur].p_pid, NPROC) = -1 THEN procs[cur].p_pid
    ELSE schedule_scan(procs, procs[cur].p_pid, NPROC)

\* a scheduler whose scan starts at the current process
schedule_from_current(procs, cur) ==
    schedule_scan(procs, (procs[cur].p_pid + NPROC - 1) % NPROC, NPROC)

schedule(procs, cur) == schedule_scan(procs, procs[cur].p_pid, NPROC)

\* ------------------------------------------------------------------------
\* kernel.c: exception().  Every trap saves the registers, runs the
\* checker (a failed assertion halts the kernel), handles the trap and
\* then resumes the current process if it is runnable, else schedules.
\* ------------------------------------------------------------------------
AllocAddrs ==
    { PROC_START_ADDR + PAGESIZE,       \* a heap page
      PROC_START_ADDR + PAGESIZE + 1,   \* misaligned
      PROC_START_ADDR - PAGESIZE,       \* below the private region
      MEMSIZE_VIRTUAL }                 \* the ceiling

WriteVas == { MEMSIZE_VIRTUAL - PAGESIZE }

CheckOk == virtual_memory_check(pageinfo, mem, processes)

\* The bytes of a page are tracked only while the page is allocated: exit
\* leaves them in place, and nothing reads them before the page is handed
\* out again.
Forget(pi, m) ==
    [pn \in Pages |->
        IF pi[pn].owner = PO_FREE /\ pi[pn].refcount = 0 THEN ZeroPage ELSE m[pn]]

\* current->p_registers = *reg: the descriptor takes the registers the
\* process trapped with; eax is the system call argument
Saved(eax) == [processes EXCEPT ![current].reg_eax = eax]

\* panic(), or a failed assertion: the kernel halts
Halt(procs) ==
    /\ mode' = "panic"
    /\ processes' = procs
    /\ UNCHANGED <<pageinfo, underflow, mem, current, related, forks, allocs, faults>>

\* run(p): the assertion in run() halts the kernel
Run(procs, pid) ==
    IF procs[pid].p_state = P_RUNNABLE
    THEN current' = pid /\ mode' = "run"
    ELSE current' = current /\ mode' = "panic"

Schedule(procs) ==
    \E pid \in { schedule(procs, current) } :
        IF pid = -1 THEN current' = current /\ mode' = "spin" ELSE Run(procs, pid)

\* a tail that always goes through the scheduler
ReturnScheduling(procs) ==
    /\ processes' = procs
    /\ Schedule(procs)

\* the tail of exception()
Return(procs) ==
    /\ processes' = procs
    /\ IF procs[current].p_state = P_RUNNABLE THEN Run(procs, current)
       ELSE Schedule(procs)

SysPanic ==
    /\ mode = "run"
    /\ UNCHANGED pong_vars
    /\ last' = [trap |-> "other", valid |-> FALSE]
    /\ Halt(Saved(NoArg))

\* a get-process-id that counts the processes from 0
SysGetpidFromZero ==
    /\ mode = "run"
    /\ UNCHANGED pong_vars
    /\ last' = [trap |-> "other", valid |-> FALSE]
    /\ IF ~CheckOk THEN Halt(Saved(NoArg))
       ELSE /\ Return([Saved(NoArg) EXCEPT ![current].reg_eax = processes[current].p_pid - 1])
            /\ UNCHANGED <<pageinfo, underflow, mem, related, forks, allocs, faults>>

SysGetpid ==
    /\ mode = "run"
    /\ UNCHANGED pong_vars
    /\ last' = [trap |-> "other", valid |-> FALSE]
    /\ IF ~CheckOk THEN Halt(Saved(NoArg))
       ELSE /\ Return([Saved(NoArg) EXCEPT ![current].reg_eax = processes[current].p_pid])
            /\ UNCHANGED <<pageinfo, underflow, mem, related, forks, allocs, faults>>

\* a yield whose checker keeps its count of kernel references in the ledger
SysYieldCounting ==
    /\ mode = "run"
    /\ UNCHANGED pong_vars
    /\ last' = [trap |-> "other", valid |-> FALSE]
    /\ IF ~CheckOk THEN Halt(Saved(NoArg))
       ELSE /\ processes' = Saved(NoArg)
            /\ Schedule(Saved(NoArg))
            /\ pageinfo' = [pageinfo EXCEPT ![KernelL1Pn].refcount =
                                                expected_kernel_refcount(processes) + 1]
            /\ UNCHANGED <<underflow, mem, related, forks, allocs, faults>>

SysYield ==
    /\ mode = "run"
    /\ UNCHANGED pong_vars
    /\ last' = [trap |-> "other", valid |-> FALSE]
    /\ IF ~CheckOk THEN Halt(Saved(NoArg))
       ELSE /\ processes' = Saved(NoArg)
            /\ Schedule(Saved(NoArg))
            /\ UNCHANGED <<pageinfo, underflow, mem, related, forks, allocs, faults>>

\* the address tests of the page-allocate trap, negated
InvalidAddr(addr) ==
    addr % PAGESIZE # 0 \/ addr < PROC_START_ADDR \/ addr >= MEMSIZE_VIRTUAL

PageAllocAt(addr) ==
    /\ mode = "run"
    /\ UNCHANGED pong_vars
    /\ last' = [trap |-> "page_alloc", valid |-> ~InvalidAddr(addr)]
    /\ allocs < MaxAllocs
    /\ \E a \in { alloc_free_page(pageinfo, processes[current].p_pid) } :
           IF ~CheckOk THEN Halt(Saved(addr))
           ELSE /\ pageinfo' = a.pageinfo
                /\ IF /\ a.addr # NULL
                      /\ addr % PAGESIZE = 0
                      /\ addr >= PROC_START_ADDR
                      /\ addr < MEMSIZE_VIRTUAL
                   THEN /\ mem' = virtual_memory_map(mem, processes[current].p_pagetable,
                                      addr, a.addr, PAGESIZE, PTE_P + PTE_W + PTE_U)
                        /\ Return([Saved(addr) EXCEPT ![current].reg_eax = 0])
                   ELSE /\ mem' = mem
                        /\ Return([Saved(addr) EXCEPT ![current].reg_eax = -1])
                /\ allocs' = allocs + 1
                /\ UNCHANGED <<underflow, related, forks, faults>>

SysPageAlloc == \E addr \in AllocAddrs : PageAllocAt(addr)

Timer ==
    /\ mode = "run"
    /\ UNCHANGED pong_vars
    /\ last' = [trap |-> "other", valid |-> FALSE]
    /\ IF ~CheckOk THEN Halt(Saved(NoArg))
       ELSE /\ processes' = Saved(NoArg)
            /\ Schedule(Saved(NoArg))
            /\ UNCHANGED <<pageinfo, underflow, mem, related, forks, allocs, faults>>

\* a fault that marks every process broken
mark_broken_all(procs, pid) ==
    [q \in Pids |-> [procs[q] EXCEPT !.p_state = IF @ = P_FREE THEN @ ELSE P_BROKEN]]

\* current->p_state = P_BROKEN
mark_broken(procs, pid) == [procs EXCEPT ![pid].p_state = P_BROKEN]

\* a fault handler without the PFERR_USER test
PageFaultFromAny(user) ==
    /\ mode = "run"
    /\ UNCHANGED pong_vars
    /\ last' = [trap |-> "other", valid |-> FALSE]
    /\ faults < MaxFaults
    /\ IF ~CheckOk THEN Halt(Saved(NoArg))
       ELSE /\ Return(mark_broken(Saved(NoArg), current))
            /\ faults' = faults + 1
            /\ UNCHANGED <<pageinfo, underflow, mem, related, forks, allocs>>

\* user: the PFERR_USER bit of the error code; a kernel fault panics
PageFaultFrom(user) ==
    /\ mode = "run"
    /\ UNCHANGED pong_vars
    /\ last' = [trap |-> "other", valid |-> FALSE]
    /\ faults < MaxFaults
    /\ IF ~CheckOk \/ ~user THEN Halt(Saved(NoArg))
       ELSE /\ Return(mark_broken(Saved(NoArg), current))
            /\ faults' = faults + 1
            /\ UNCHANGED <<pageinfo, underflow, mem, related, forks, allocs>>

PageFault == \E user \in BOOLEAN : PageFaultFrom(user)

\* the fork trap, taken while fewer than budget fork traps were taken
Fork(budget) ==
    /\ mode = "run"
    /\ UNCHANGED pong_vars
    /\ last' = [trap |-> "fork", valid |-> FALSE]
    /\ forks < budget
    /\ IF ~CheckOk THEN Halt(Saved(NoArg))
       ELSE \E f \in { fork_process(pageinfo, mem, Saved(NoArg), underflow, current) } :
                /\ pageinfo' = f.pageinfo
                /\ mem' = Forget(f.pageinfo, f.mem)
                /\ underflow' = f.underflow
                /\ related' = IF f.ret = -1 THEN related
                              ELSE related \cup {current, f.ret}
                /\ Return([f.processes EXCEPT ![current].reg_eax = f.ret])
                /\ forks' = forks + 1
                /\ UNCHANGED <<allocs, faults>>

SysFork == Fork(MaxForks)

SysExit ==
    /\ mode = "run"
    /\ UNCHANGED pong_vars
    /\ last' = [trap |-> "exit", valid |-> FALSE]
    /\ IF ~CheckOk THEN Halt(Saved(NoArg))
       ELSE \E f \in { free_current_process(pageinfo, mem, Saved(NoArg), current) } :
                /\ pageinfo' = f.pageinfo
                /\ related' = related \ {current}
                /\ mem' = Forget(f.pageinfo, mem)
                /\ Return(f.processes)
                /\ UNCHANGED <<underflow, forks, allocs, faults>>

UnknownTrap ==
    /\ mode = "run"
    /\ UNCHANGED pong_vars
    /\ last' = [trap |-> "other", valid |-> FALSE]
    /\ Halt(Saved(NoArg))

\* a store by the running process through a writable user mapping
UserWrite ==
    /\ mode = "run"
    /\ UNCHANGED pong_vars
    /\ \E va \in WriteVas, w \in DataWords :
        \E vam \in { virtual_memory_lookup(mem, processes[current].p_pagetable, va) } :
            /\ Has(vam.perm, PTE_W) /\ Has(vam.perm, PTE_U)
            /\ mem[vam.pn][0] # w
            /\ mem' = [mem EXCEPT ![vam.pn][0] = w]
            /\ UNCHANGED <<pageinfo, underflow, processes, current, mode, related,
                           forks, allocs, faults, last>>

\* the traps that change the ledger, memory or the schedule
Next ==
    \/ SysYield
    \/ SysPageAlloc
    \/ Timer
    \/ PageFault
    \/ SysFork
    \/ SysExit

Spec == Init /\ [][Next]_vars

\* every trap: with getpid and the traps that always halt the kernel
NextAll ==
    \/ Next
    \/ SysGetpid
    \/ SysPanic
    \/ UnknownTrap

SpecAll == Init /\ [][NextAll]_vars

\* get-process-id among the traps that create, end, break and switch
\* processes
NextPid ==
    \/ SysGetpid
    \/ SysYield
    \/ PageFault
    \/ SysFork
    \/ SysExit

SpecPid == Init /\ [][NextPid]_vars

\* the traps that halt the kernel among the traps that create, end, break
\* and switch processes
NextHalt ==
    \/ SysPanic
    \/ UnknownTrap
    \/ PageFault
    \/ SysYield
    \/ SysFork
    \/ SysExit

SpecHalt == Init /\ [][NextHalt]_vars

\* the traps after which exception() chooses between the current process
\* and the scheduler
NextResume ==
    \/ SysGetpid
    \/ SysPageAlloc
    \/ SysFork
    \/ SysExit
    \/ PageFault

SpecResume == Init /\ [][NextResume]_vars

\* the default boot alone, followed by the traps that create, end, break
\* and switch processes
InitDefault == Boot({"default"}) /\ PongOff

SpecDefault == InitDefault /\ [][NextPid]_vars

\* the traps that use up memory and raise reference counts, with a fork
\* budget that lets a count pass the range of its int8_t field
SysForkMany == Fork(MaxRefForks)

\* a page-allocate trap for the first page of the heap
SysPageAllocHeap == PageAllocAt(PROC_START_ADDR + PAGESIZE)

NextRefs ==
    \/ SysPageAllocHeap
    \/ SysForkMany

SpecRefs == Init /\ [][NextRefs]_vars

\* the traps that create, end, break and switch processes, with a timer
\* that keeps ticking: a timer trap that would change the state is
\* eventually taken
UserPageFault == PageFaultFrom(TRUE)

NextSched ==
    \/ Timer
    \/ SysYield
    \/ SysFork
    \/ SysExit
    \/ UserPageFault

SpecSched == Init /\ [][NextSched]_vars /\ WF_vars(Timer)

\* physical_page_alloc called on its own, as the program loader does, with
\* any address and owner
PhysAddrs ==
    { PAGEADDRESS(pn) : pn \in 0 .. NPAGES } \cup
    { PAGEADDRESS(NPAGES - 1) + 1, PAGEADDRESS(NPAGES - 1) + PAGESIZE - 1,
      PAGEADDRESS(NPAGES) + 1 }

PhysOwners == { 1, 2, PO_KERNEL }

PhysicalPageAllocAt(addr, owner) ==
    /\ mode = "run"
    /\ UNCHANGED pong_vars
    /\ allocs < MaxAllocs
    /\ \E a \in { physical_page_alloc(pageinfo, addr, owner) } :
          /\ pageinfo' = a.pageinfo
          /\ last' = [trap |-> "physical_page_alloc", valid |-> a.r = 0]
    /\ allocs' = allocs + 1
    /\ UNCHANGED <<underflow, mem, processes, current, mode, related, forks, faults>>

PhysicalPageAlloc ==
    \E addr \in PhysAddrs, owner \in PhysOwners : PhysicalPageAllocAt(addr, owner)

NextPhys == PhysicalPageAlloc

SpecPhys == Init /\ [][NextPhys]_vars

\* the traps that change the ledger or memory, with the stores of the
\* running process
NextData ==
    \/ SysYield
    \/ SysPageAlloc
    \/ SysFork
    \/ SysExit
    \/ UserWrite

SpecData == Init /\ [][NextData]_vars

\* ------------------------------------------------------------------------
\* Notions used by the properties
\* ------------------------------------------------------------------------
Live(procs) == { pid \in Pids : procs[pid].p_state # P_FREE }

Lookup(pid, va) == virtual_memory_lookup(mem, processes[pid].p_pagetable, va)
LookupNext(pid, va) == virtual_memory_lookup(mem', processes'[pid].p_pagetable, va)

\* the private-region virtual addresses at which pid maps physical page pn
MapsAt(pid, pn) == { va \in PrivateVas : Lookup(pid, va).pn = pn }
MapsAtNext(pid, pn) == { va \in PrivateVas : LookupNext(pid, va).pn = pn }

\* pid maps pn at some page of its virtual address space, private or not
MapsAnywhereNext(pid, pn) ==
    \E n \in 0 .. (NVPAGES - 1) : LookupNext(pid, PAGEADDRESS(n)).pn = pn

\* the (process, address) pairs of live processes mapping pn
Mappings(pn) ==
    { <<pid, va>> \in Live(processes) \X PrivateVas : Lookup(pid, va).pn = pn }

\* pn is the level-1 or level-2 table page of a live process or of the kernel
TablePage(pn) ==
    \/ pn = KernelL1Pn \/ pn = KernelL2Pn
    \/ \E pid \in Live(processes) :
          \/ pn = PAGENUMBER(processes[pid].p_pagetable)
          \/ pn = PAGENUMBER(mem[PAGENUMBER(processes[pid].p_pagetable)][0])

FreePage(pi, pn) == pi[pn].owner = PO_FREE /\ pi[pn].refcount = 0

\* C1: for every physical page that is not a page-table node and is not
\* owned by KERNEL or RESERVED, the refcount equals the number of
\* (live process, private address) pairs that map the page.
C1_RefcountCountsMappings ==
    \A pn \in Pages :
        (~TablePage(pn) /\ pageinfo[pn].owner \notin {PO_KERNEL, PO_RESERVED})
            => pageinfo[pn].refcount = Cardinality(Mappings(pn))

\* steps in which a trap passed the checker and was handled
ExitStep == SysExit /\ CheckOk
ForkStep == SysFork /\ CheckOk
AllocStep(addr) == PageAllocAt(addr) /\ CheckOk

\* C2: when a process that maps a read-only page shared with a RUNNABLE
\* process exits, the page's refcount drops by exactly one and its owner
\* afterwards is a live process that still maps the page.
C2_SharedPageSurvivesExit ==
    [][ExitStep =>
        \A pn \in Pages :
            ( /\ \E va \in MapsAt(current, pn) : ~Has(Lookup(current, va).perm, PTE_W)
              /\ \E q \in Pids \ {current} :
                    processes[q].p_state = P_RUNNABLE /\ MapsAt(q, pn) # {} )
            => /\ pageinfo'[pn].refcount = pageinfo[pn].refcount - 1
               /\ pageinfo'[pn].owner \in Live(processes') \ {0}
               /\ MapsAnywhereNext(pageinfo'[pn].owner, pn)
    ]_vars

\* C3: after exit(p) of a process that shares no page with any other
\* process (it never forked and was not created by fork), every ledger
\* entry it owned is FREE with refcount 0 and p is FREE.
SharesNothing(p) ==
    /\ p \notin related
    /\ \A pn \in Pages :
          (pageinfo[pn].owner = p \/ MapsAt(p, pn) # {})
              => \A q \in Live(processes) \ {p} : MapsAt(q, pn) = {}

C3_ExitReclaimsOwnPages ==
    [][(ExitStep /\ SharesNothing(current)) =>
        /\ processes'[current].p_state = P_FREE
        /\ \A pn \in Pages :
              pageinfo[pn].owner = current => FreePage(pageinfo', pn)
    ]_vars

\* C4: a fork that fails for want of a physical page returns -1, leaves
\* the child slot FREE and leaves the whole ledger and the states and page
\* tables of all existing processes as they were.
FailedForkStep ==
    /\ ForkStep
    /\ find_free_process_slot(processes) # -1
    /\ fork_process(pageinfo, mem, Saved(NoArg), underflow, current).ret = -1

RootPages(m, procs, pid) ==
    { PAGENUMBER(procs[pid].p_pagetable),
      PAGENUMBER(m[PAGENUMBER(procs[pid].p_pagetable)][0]) }

C4_FailedForkChangesNothing ==
    [][FailedForkStep =>
        /\ processes'[current].reg_eax = -1
        /\ processes'[find_free_process_slot(processes)].p_state = P_FREE
        /\ pageinfo' = pageinfo
        /\ \A pid \in Live(processes) :
              /\ processes'[pid].p_state = processes[pid].p_state
              /\ processes'[pid].p_pagetable = processes[pid].p_pagetable
              /\ \A pn \in RootPages(mem, processes, pid) : mem'[pn] = mem[pn]
    ]_vars

\* C5: a page-allocate trap whose address is misaligned, below the private
\* region or at or above the ceiling returns -1 and leaves every ledger
\* entry and every mapping unchanged, even when free pages exist.
C5_InvalidAllocChangesNothing ==
    [][\A addr \in AllocAddrs :
        (AllocStep(addr) /\ InvalidAddr(addr)) =>
            /\ processes'[current].reg_eax = -1
            /\ pageinfo' = pageinfo
            /\ mem' = mem
    ]_vars

\* a fork that returned the child's pid to the parent
ForkedChild == find_free_process_slot(processes)

SuccessfulForkStep ==
    /\ ForkStep
    /\ ForkedChild # -1
    /\ processes'[current].reg_eax = ForkedChild

\* C6: after a successful fork, for every private page the parent maps
\* writable, the child maps at the same address a different physical page
\* that was FREE before, is owned by the child with refcount 1, has the same
\* permission bits and holds a copy of the parent's page as it was at the
\* fork; the parent's page keeps its ledger entry and neither process maps
\* the other's page.
C6_ForkCopiesWritablePages ==
    [][SuccessfulForkStep =>
        \A va \in PrivateVas :
            LET p == Lookup(current, va)
                c == LookupNext(ForkedChild, va)
            IN  (p.pn # -1 /\ Has(p.perm, PTE_W)) =>
                    /\ c.pn \in Pages
                    /\ c.pn # p.pn
                    /\ FreePage(pageinfo, c.pn)
                    /\ pageinfo'[c.pn] = [owner |-> ForkedChild, refcount |-> 1]
                    /\ c.perm = p.perm
                    /\ mem'[c.pn] = mem[p.pn]
                    /\ mem'[p.pn] = mem[p.pn]
                    /\ pageinfo'[p.pn] = pageinfo[p.pn]
                    /\ LookupNext(current, va).pn = p.pn
                    /\ MapsAtNext(current, c.pn) = {}
                    /\ MapsAtNext(ForkedChild, p.pn) = {}
    ]_vars

WritablePages(pid) ==
    { Lookup(pid, va).pn : va \in { v \in PrivateVas : Has(Lookup(pid, v).perm, PTE_W) } }

C8_NoSharedWritablePage ==
    \A p, q \in Live(processes) :
        (p # q) => WritablePages(p) \cap WritablePages(q) = {}

\* a parent and the child it has just forked, each with its writable stack
\* page and the parent with a writable heap page besides
C8_Witness ==
    /\ last.trap = "fork"
    /\ mode = "run"
    /\ processes[current].reg_eax \in Live(processes) \ {0, current}
    /\ Cardinality(WritablePages(current)) = 2
    /\ Cardinality(WritablePages(processes[current].reg_eax)) = 2

\* C9: a page-allocate trap with a valid address returns -1 and changes no
\* ledger entry and no mapping when no ledger entry is FREE, and returns 0
\* whenever a page is FREE, in particular once an exit has freed one.
C9_ExhaustedAllocFailsUntilFreed ==
    [][\A addr \in AllocAddrs :
        (AllocStep(addr) /\ ~InvalidAddr(addr)) =>
            IF \A pn \in Pages : pageinfo[pn].owner # PO_FREE
            THEN /\ processes'[current].reg_eax = -1
                 /\ pageinfo' = pageinfo
                 /\ mem' = mem
            ELSE (\E pn \in Pages : FreePage(pageinfo, pn))
                    => processes'[current].reg_eax = 0
    ]_vars

\* the heap address was asked for and refused with the ledger exhausted
C9_Witness ==
    /\ last = [trap |-> "page_alloc", valid |-> TRUE]
    /\ mode = "run"
    /\ processes[current].reg_eax = -1
    /\ \A pn \in Pages : pageinfo[pn].owner # PO_FREE

\* C10: a page-allocate trap with a valid address, taken when a FREE page
\* exists, returns 0; the lowest-numbered page that was FREE with refcount 0
\* is now owned by the caller with refcount 1 and mapped at the address in
\* the caller's page table present, writable and user-accessible; no other
\* ledger entry and no other process's page table changes.
LowestFree ==
    CHOOSE pn \in Pages :
        FreePage(pageinfo, pn) /\ \A j \in 0 .. (pn - 1) : ~FreePage(pageinfo, j)

C10_AllocTakesLowestFreePage ==
    [][\A addr \in AllocAddrs :
        (AllocStep(addr) /\ ~InvalidAddr(addr) /\ \E pn \in Pages : FreePage(pageinfo, pn)) =>
            /\ processes'[current].reg_eax = 0
            /\ pageinfo'[LowestFree] = [owner |-> processes[current].p_pid, refcount |-> 1]
            /\ LookupNext(current, addr).pn = LowestFree
            /\ LookupNext(current, addr).perm = PTE_P + PTE_W + PTE_U
            /\ \A pn \in Pages \ {LowestFree} : pageinfo'[pn] = pageinfo[pn]
            /\ \A pid \in Live(processes) \ {current} :
                  /\ processes'[pid].p_pagetable = processes[pid].p_pagetable
                  /\ \A pn \in RootPages(mem, processes, pid) : mem'[pn] = mem[pn]
    ]_vars

\* the heap address was asked for and granted
C10_Witness ==
    /\ last = [trap |-> "page_alloc", valid |-> TRUE]
    /\ mode = "run"
    /\ processes[current].reg_eax = 0
    /\ LET vam == Lookup(current, PROC_START_ADDR + PAGESIZE)
       IN  /\ vam.perm = PTE_P + PTE_W + PTE_U
           /\ pageinfo[vam.pn] = [owner |-> current, refcount |-> 1]

\* a user-mode page fault that passed the checker and was handled
UserFaultStep == PageFaultFrom(TRUE) /\ CheckOk

\* C11: a page fault raised from user mode by process p changes p's state
\* to BROKEN and nothing else: every other process keeps its descriptor,
\* the ledger and the page tables are unchanged and no process changes its
\* translation root.
C11_FaultBreaksOnlyFaulter ==
    [][UserFaultStep =>
        /\ processes'[current].p_state = P_BROKEN
        /\ \A q \in Pids \ {current} : processes'[q] = processes[q]
        /\ \A q \in Pids : processes'[q].p_pagetable = processes[q].p_pagetable
        /\ pageinfo' = pageinfo
        /\ mem' = mem
    ]_vars

\* a process is broken, still owns its pages, and another one runs
C11_Witness ==
    /\ mode = "run"
    /\ \E p \in Pids :
          /\ processes[p].p_state = P_BROKEN
          /\ p # current
          /\ pageinfo[PAGENUMBER(processes[p].p_pagetable)] = [owner |-> p, refcount |-> 1]
          /\ processes[current].p_state = P_RUNNABLE

\* C12: once a process is BROKEN it is never resumed: it stays BROKEN in
\* every later state, it is never the process handed to run(), and its
\* slot is never the child slot of a fork.
C12_BrokenNeverResumed ==
    /\ [](\A p \in Pids :
            (processes[p].p_state = P_BROKEN /\ mode = "run") => current # p)
    /\ [][\A p \in Pids :
            processes[p].p_state = P_BROKEN =>
                /\ processes'[p].p_state = P_BROKEN
                /\ processes'[p].p_pagetable = processes[p].p_pagetable
                /\ SuccessfulForkStep => ForkedChild # p
       ]_vars

\* a fork succeeded after a process broke
C12_Witness ==
    /\ mode = "run"
    /\ last.trap = "fork"
    /\ processes[current].reg_eax \in Live(processes) \ {0, current}
    /\ \E p \in Pids \ {current} : processes[p].p_state = P_BROKEN

\* the slots that fork may take
FreeSlots == { i \in 1 .. (NPROC - 1) : processes[i].p_state = P_FREE }

\* C13: a successful fork returns to the parent the pid of the
\* lowest-numbered slot of 1..NPROC-1 that was FREE before the call; that
\* slot becomes RUNNABLE with the parent's saved registers except for a
\* return value of 0, and the parent stays RUNNABLE and running with the
\* child's pid as its return value.
C13_ForkReturnsLowestFreeSlot ==
    [][(ForkStep /\ processes'[current].reg_eax # -1) =>
        /\ FreeSlots # {}
        /\ \A c \in FreeSlots :
              (\A j \in FreeSlots : c <= j) =>
                  /\ processes'[current].reg_eax = c
                  /\ processes'[c].p_pid = c
                  /\ processes'[c].p_state = P_RUNNABLE
                  /\ processes'[c].reg_esp = processes[current].reg_esp
                  /\ processes'[c].reg_eax = 0
        /\ processes'[current].p_state = P_RUNNABLE
        /\ processes'[current].reg_esp = processes[current].reg_esp
        /\ current' = current
        /\ mode' = "run"
    ]_vars

\* a fork took slot 1, freed by an exit, while the higher slot 3 was free
C13_Witness ==
    /\ mode = "run"
    /\ last.trap = "fork"
    /\ processes[current].reg_eax = 1
    /\ processes[1].p_state = P_RUNNABLE
    /\ processes[1].reg_eax = 0
    /\ processes[1].reg_esp = processes[current].reg_esp
    /\ processes[NPROC - 1].p_state = P_FREE

\* C14: when no slot of 1..NPROC-1 is FREE, fork returns -1 to the caller
\* and changes no process descriptor other than the caller's return value,
\* no ledger entry and no mapping.
C14_ForkWithoutSlotFails ==
    [][(ForkStep /\ FreeSlots = {}) =>
        /\ processes' = [Saved(NoArg) EXCEPT ![current].reg_eax = -1]
        /\ \A q \in Pids \ {current} : processes'[q] = processes[q]
        /\ pageinfo' = pageinfo
        /\ mem' = mem
        /\ underflow' = underflow
    ]_vars

\* a fork was refused while every slot of 1..NPROC-1 was taken
C14_Witness ==
    /\ mode = "run"
    /\ last.trap = "fork"
    /\ processes[current].reg_eax = -1
    /\ \A i \in 1 .. (NPROC - 1) : processes[i].p_state = P_RUNNABLE

\* a get-process-id trap that passed the checker and was handled
GetpidStep == SysGetpid /\ CheckOk

\* C15: a get-process-id trap from process p sets p's return value to p's
\* pid, which lies in 1..NPROC-1 and differs from the pid of every other
\* process that is not FREE; no other descriptor, no ledger entry and no
\* mapping changes.
C15_GetpidReturnsOwnPid ==
    [][GetpidStep =>
        /\ processes'[current].reg_eax = processes[current].p_pid
        /\ processes'[current].reg_eax \in 1 .. (NPROC - 1)
        /\ \A q \in Live(processes) \ {current} :
              processes[q].p_pid # processes'[current].reg_eax
        /\ processes' = [processes EXCEPT
                            ![current].reg_eax = processes'[current].reg_eax]
        /\ pageinfo' = pageinfo
        /\ mem' = mem
        /\ current' = current
    ]_vars

\* a process among three live ones has just read its own pid
C15_Witness ==
    /\ mode = "run"
    /\ current # 0
    /\ processes[current].reg_eax = processes[current].p_pid
    /\ Cardinality(Live(processes)) = 3

\* the pages pid maps writable in its private region after the step
WritablePagesNext(pid) ==
    { LookupNext(pid, va).pn :
        va \in { v \in PrivateVas : Has(LookupNext(pid, v).perm, PTE_W) } }

\* the virtual addresses below the private region
KernelVas == { PAGEADDRESS(n) : n \in 0 .. (PROC_START_PN - 1) }

\* the second of two successful forks in a row by the running process: the
\* latest trap was a fork that left a child's pid in its return value
SecondForkStep ==
    /\ SuccessfulForkStep
    /\ last.trap = "fork"
    /\ processes[current].reg_eax \in 1 .. (NPROC - 1)

\* every process that is not FREE resolves the kernel region as the
\* kernel's own page table does
KernelRegionShared ==
    \A p \in Live(processes) : \A va \in KernelVas :
        Lookup(p, va) = virtual_memory_lookup(mem, kernel_pagetable, va)

\* C16: after a process forks successfully twice in a row the parent and
\* its two children are three distinct RUNNABLE descriptors whose writable
\* private pages are pairwise different physical pages; and in every
\* reachable state every process that is not FREE resolves every address
\* below the private region to the same page, with the same permissions,
\* as the kernel's page table.
C16_TwoForksThreeProcesses ==
    /\ [][SecondForkStep =>
            \E trio \in { {current, processes[current].reg_eax,
                             processes'[current].reg_eax} } :
                /\ Cardinality(trio) = 3
                /\ \A p \in trio :
                      /\ processes'[p].p_state = P_RUNNABLE
                      /\ processes'[p].p_pid = p
                      /\ WritablePagesNext(p) # {}
                /\ \A p, q \in trio :
                      (p # q) => WritablePagesNext(p) \cap WritablePagesNext(q) = {}
       ]_vars
    /\ []KernelRegionShared

\* the parent holds the pid of its second child; both children and the
\* parent are runnable and each maps a writable page
C16_Witness ==
    /\ mode = "run"
    /\ last.trap = "fork"
    /\ forks = 2
    /\ processes[current].reg_eax \in 1 .. (NPROC - 1)
    /\ Cardinality({ p \in Pids : processes[p].p_state = P_RUNNABLE
                                    /\ WritablePages(p) # {} }) = 3
    /\ \A p \in Live(processes) : p \in related
    /\ KernelRegionShared

\* C17: in every reachable state slot 0 is FREE: boot does not set it up,
\* no fork takes it for the child, and the scheduler, whose cyclic scan
\* passes over index 0, never resumes it.
C17_SlotZeroNeverUsed ==
    /\ processes[0].p_state = P_FREE
    /\ processes[0].p_pagetable = NULL
    /\ mode = "run" => current # 0

\* the scan has wrapped from the highest runnable slot over index 0 back to
\* process 1: only yields and timer ticks so far, with process 2 runnable
C17_Witness ==
    /\ mode = "run"
    /\ last.trap = "other"
    /\ current = 1
    /\ processes[2].p_state = P_RUNNABLE
    /\ forks = 0 /\ allocs = 0 /\ faults = 0
    /\ processes[0].p_state = P_FREE

\* C18: at every trap entry the level-1 table page of every process that
\* is not FREE, and every level-2 table page reachable from it, is owned by
\* that process with refcount exactly 1, and the kernel's table pages are
\* owned by KERNEL: the page-table assertions of the checker never fail.
C18_TablePagesOwnedOnce ==
    mode = "run" =>
        \A pid \in -1 .. (NPROC - 1) :
            (pid >= 0 /\ processes[pid].p_state = P_FREE)
                \/ pagetable_check(pageinfo, mem, processes, pid)

\* C19: in every reachable state every ledger entry with a positive
\* refcount and a non-negative owner names a process that is not FREE: no
\* page has a positive refcount with owner 0 or with the pid of a process
\* that has exited.
C19_ReferencedPagesHaveLiveOwner ==
    owner_check(pageinfo, processes)

\* C20: the checker runs after the trap's operation has been applied and
\* before any process is resumed: a trap that turns a state passing the
\* checker into one that fails it does not resume a process.
C20_CheckedBeforeResume ==
    [][(CheckOk /\ ~virtual_memory_check(pageinfo', mem', processes'))
          => mode' # "run"]_vars

\* a trap that halts the kernel whatever the state: an explicit panic, an
\* unrecognized trap number, a page fault raised in kernel mode
HaltingTrap == SysPanic \/ UnknownTrap \/ PageFaultFrom(FALSE)

\* C21: a kernel-mode page fault, an unrecognized trap or a panic request
\* halts the kernel: the trapping process is not marked BROKEN, no process
\* is resumed, and once halted no process state, ledger entry or mapping
\* changes.
C21_HaltingTrapsHalt ==
    /\ [][HaltingTrap =>
            /\ mode' = "panic"
            /\ processes'[current].p_state = P_RUNNABLE
            /\ \A q \in Pids : processes'[q].p_state = processes[q].p_state
            /\ pageinfo' = pageinfo
            /\ mem' = mem
       ]_vars
    /\ [][mode = "panic" =>
            /\ mode' = "panic"
            /\ UNCHANGED <<processes, pageinfo, mem, current>>
       ]_vars

\* the kernel has halted on a state that passes the checker, in front of a
\* runnable process and beside another one
C21_Witness ==
    /\ mode = "panic"
    /\ CheckOk
    /\ processes[current].p_state = P_RUNNABLE
    /\ \E q \in Pids \ {current} : processes[q].p_state = P_RUNNABLE
    /\ forks > 0

\* a trap whose handler does nothing but run the checker and pick the next
\* process
CheckOnlyStep == SysYield \/ Timer

Handled(trap) == last'.trap = trap /\ mode = "run" /\ CheckOk

\* the values p_state of slot q takes, in order, during the step
StateTrace(q) ==
    IF q = current /\ Handled("exit")
    THEN free_current_process_states(Saved(NoArg), current)
    ELSE IF Handled("fork") /\ q = ForkedChild
    THEN fork_process_states(pageinfo, mem, Saved(NoArg), underflow, current)
    ELSE IF /\ q = current /\ processes'[q].p_state = P_BROKEN
            /\ Handled("other")
    THEN <<processes[q].p_state, P_BROKEN>>
    ELSE <<processes[q].p_state>>

\* the pairs of successive values in a trace
Changes(trace) == { <<trace[i], trace[i + 1]>> : i \in 1 .. (Len(trace) - 1) }

\* the state machine of a process descriptor
StateMachine ==
    { <<P_FREE, P_RUNNABLE>>, <<P_RUNNABLE, P_BROKEN>>,
      <<P_RUNNABLE, P_BLOCKED>>, <<P_BLOCKED, P_FREE>> }

\* the trace of slot q ends in the state the step leaves the slot in, and
\* the slot is not BLOCKED when a process is resumed
TraceEndsInNextState(q, trace) ==
    /\ processes'[q].p_state = trace[Len(trace)]
    /\ mode' = "run" => processes'[q].p_state # P_BLOCKED

\* C23: every change of a descriptor's state is FREE -> RUNNABLE,
\* RUNNABLE -> BROKEN, RUNNABLE -> BLOCKED or BLOCKED -> FREE, and no
\* descriptor is BLOCKED when a process is resumed.
C23_StateMachine ==
    [][\A q \in Pids : \E trace \in { StateTrace(q) } :
        /\ TraceEndsInNextState(q, trace)
        /\ Changes(trace) \subseteq StateMachine
    ]_vars

\* C23, amended: as C23, with one more change, FREE -> BLOCKED, taken only
\* by the child slot of a fork that fails after the slot was chosen.
C23_StateMachineWithFailedFork ==
    [][\A q \in Pids : \E trace \in { StateTrace(q) } :
        /\ TraceEndsInNextState(q, trace)
        /\ \/ Changes(trace) \subseteq StateMachine
           \/ /\ trace = <<P_FREE, P_BLOCKED, P_FREE>>
              /\ last'.trap = "fork"
              /\ q = ForkedChild
              /\ processes'[current].reg_eax = -1
    ]_vars

\* a fork has failed for want of memory with a child slot chosen, next to a
\* process that once exited and one that broke
C23_Witness ==
    /\ mode = "run"
    /\ last.trap = "fork"
    /\ processes[current].reg_eax = -1
    /\ FreeSlots # {}
    /\ \E q \in Pids : processes[q].p_state = P_BROKEN

\* a trap after which the trapping process is still runnable
ResumingStep ==
    GetpidStep \/ ForkStep \/ \E addr \in AllocAddrs : AllocStep(addr)

\* a trap that ends or breaks the trapping process
LeavingStep == ExitStep \/ UserFaultStep

\* C24: after a get-process-id, page-allocate or fork trap from process p,
\* successful or not, the process resumed is p; after an exit or a
\* user-mode page fault from p the process resumed, if any, is the one the
\* scheduler picks and is not p.
C24_ResumeCurrentOrSchedule ==
    [][ /\ ResumingStep =>
              /\ mode' = "run"
              /\ current' = current
              /\ processes'[current].p_state = P_RUNNABLE
        /\ LeavingStep =>
              /\ processes'[current].p_state # P_RUNNABLE
              /\ mode' \in {"run", "spin"}
              /\ mode' = "run" =>
                    /\ current' # current
                    /\ current' = schedule(processes', current)
                    /\ processes'[current'].p_state = P_RUNNABLE
              /\ mode' = "spin" =>
                    \A q \in Pids : processes'[q].p_state # P_RUNNABLE
    ]_vars

\* a process has exited and the scheduler has resumed another one, with a
\* third process runnable
C24_Witness ==
    /\ mode = "run"
    /\ last.trap = "exit"
    /\ processes[current].p_state = P_RUNNABLE
    /\ Cardinality({ q \in Pids : processes[q].p_state = P_RUNNABLE }) = 2
    /\ Cardinality({ q \in Pids : processes[q].p_state = P_FREE }) = 2

\* a trap whose handler ends in schedule()
SchedulingStep == (SysYield /\ CheckOk) \/ (Timer /\ CheckOk) \/ LeavingStep

\* the place of q in the cyclic order c+1, ..., NPROC-1, 0, ..., c
CyclicPlace(c, q) == (q - c - 1 + NPROC) % NPROC

\* C25: the scheduler invoked with current pid c resumes the RUNNABLE
\* process that comes first in the cyclic order c+1, ..., NPROC-1, 0, ..., c,
\* hence c itself only when no other process is RUNNABLE; the process given
\* to run() is RUNNABLE, so the assertion in run() never fails.
C25_RoundRobin ==
    [][SchedulingStep =>
        \E runnable \in { { q \in Pids : processes'[q].p_state = P_RUNNABLE } } :
            /\ mode' # "panic"
            /\ runnable = {} => mode' = "spin"
            /\ runnable # {} =>
                  /\ mode' = "run"
                  /\ current' \in runnable
                  /\ \A q \in runnable :
                        CyclicPlace(current, current') <= CyclicPlace(current, q)
    ]_vars

\* the scan has wrapped: a process has exited and the process resumed has a
\* lower pid than the one that left
C25_Witness ==
    /\ mode = "run"
    /\ last.trap = "exit"
    /\ \E p \in Pids :
          /\ processes[p].p_state = P_FREE
          /\ processes[p].p_pagetable # NULL
          /\ current < p
          /\ \A q \in Pids \ {p} :
                processes[q].p_state = P_FREE => processes[q].p_pagetable = NULL
    /\ \E q \in Pids \ {current} : processes[q].p_state = P_RUNNABLE

\* C26: if no process is RUNNABLE when the scheduler is invoked, the kernel
\* spins: no process is resumed then or later, and the process table, the
\* ledger and the page tables never change afterwards.
C26_SpinsForever ==
    /\ [][(SchedulingStep /\ \A q \in Pids : processes'[q].p_state # P_RUNNABLE)
              => mode' = "spin"]_vars
    /\ [][mode = "spin" =>
              /\ mode' = "spin"
              /\ UNCHANGED <<processes, pageinfo, mem, current>>]_vars

\* the kernel spins in front of a broken process, the others gone
C26_Witness ==
    /\ mode = "spin"
    /\ \E q \in Pids : processes[q].p_state = P_BROKEN
    /\ \A q \in Pids : processes[q].p_state # P_RUNNABLE
    /\ last.trap = "exit"

\* C27: physical_page_alloc(addr, owner) returns -1 and changes nothing if
\* addr is not page-aligned, is at or beyond the physical memory size, or
\* names a page whose refcount is not 0; otherwise it returns 0 and sets
\* that page's refcount to 1 and owner to the given owner, every other
\* ledger entry unchanged.
C27_PhysicalPageAlloc ==
    [][\A addr \in PhysAddrs, owner \in PhysOwners :
        PhysicalPageAllocAt(addr, owner) =>
            IF \/ addr % PAGESIZE # 0
               \/ addr >= MEMSIZE_PHYSICAL
               \/ pageinfo[addr \div PAGESIZE].refcount # 0
            THEN /\ ~last'.valid
                 /\ pageinfo' = pageinfo
            ELSE /\ last'.valid
                 /\ pageinfo'[addr \div PAGESIZE] = [owner |-> owner, refcount |-> 1]
                 /\ \A pn \in Pages \ {addr \div PAGESIZE} :
                       pageinfo'[pn] = pageinfo[pn]
    ]_vars

\* a free page has been given to the kernel, and a later call was refused
C27_Witness ==
    /\ last = [trap |-> "physical_page_alloc", valid |-> FALSE]
    /\ pageinfo[NPAGES - 1] = [owner |-> PO_KERNEL, refcount |-> 1]
    /\ \E pn \in Pages : FreePage(pageinfo, pn)

\* the RUNNABLE processes that map physical page pn at some page of their
\* virtual address space
RunnableMappers(pn) ==
    { pid \in 1 .. (NPROC - 1) :
        /\ processes[pid].p_state = P_RUNNABLE
        /\ \E n \in 0 .. (NVPAGES - 1) : Lookup(pid, PAGEADDRESS(n)).pn = pn }

\* C28: find_page_owner(ppn) returns the lowest pid among the RUNNABLE
\* processes that map ppn at some page-aligned address below the
\* virtual-space ceiling, addresses at or above the physical memory size
\* included, and returns none exactly when no RUNNABLE process maps ppn.
C28_FindPageOwnerFindsMapper ==
    \A pn \in Pages :
        \E owner \in { find_page_owner(processes, mem, pn) } :
            IF RunnableMappers(pn) = {} THEN owner = -1
            ELSE /\ owner \in RunnableMappers(pn)
                 /\ \A q \in RunnableMappers(pn) : owner <= q

\* C29: exit never reaches its orphan branch: whenever the exiting process
\* owns a page with refcount above 1, another RUNNABLE process is found and
\* becomes the page's owner.
C29_ExitNeverOrphans ==
    [][ExitStep =>
        /\ free_current_process_orphans(pageinfo, mem, Saved(NoArg), current) = {}
        /\ \A pn \in Pages :
              (pageinfo[pn].owner = current /\ pageinfo[pn].refcount > 1) =>
                  /\ pageinfo'[pn].owner \in Pids \ {0, current}
                  /\ processes'[pageinfo'[pn].owner].p_state = P_RUNNABLE
    ]_vars

C31_ExitChangesOnlyOwnEntries ==
    [][ExitStep =>
        /\ \A pn \in Pages :
              /\ pageinfo[pn].owner # processes[current].p_pid
                    => pageinfo'[pn] = pageinfo[pn]
              /\ pageinfo'[pn].owner # processes[current].p_pid
        /\ processes'[current] = [Saved(NoArg)[current] EXCEPT !.p_state = P_FREE]
        /\ \A q \in Pids \ {current} : processes'[q] = processes[q]
    ]_vars

\* a process that shared a page with a process it forked has exited: it is
\* FREE and owns nothing, and the page now belongs to the other process
C31_Witness ==
    /\ mode = "run"
    /\ last.trap = "exit"
    /\ \E q \in 1 .. BootProcs :
          /\ processes[q].p_state = P_FREE
          /\ \A pn \in Pages : pageinfo[pn].owner # q
    /\ \E r \in (BootProcs + 1) .. (NPROC - 1) :
          /\ processes[r].p_state = P_RUNNABLE
          /\ Lookup(r, PROC_START_ADDR).pn \in Pages
          /\ pageinfo[Lookup(r, PROC_START_ADDR).pn].owner = r

\* the ledger entries that are RESERVED or KERNEL after initialization
FixedPages == { pn \in Pages : pageinfo_init[pn].owner \in {PO_KERNEL, PO_RESERVED} }

\* C32: the ledger entries that are RESERVED or KERNEL after initialization
\* keep their owner and refcount for ever, and the free-page search never
\* returns one of them: it returns the address of a FREE page, or NULL
\* exactly when no page is FREE.
C32_KernelAndReservedEntriesFixed ==
    /\ \A pn \in FixedPages : pageinfo[pn] = pageinfo_init[pn]
    /\ \E pg_addr \in { find_free_physical_page(pageinfo) } :
          IF \E pn \in Pages : FreePage(pageinfo, pn)
          THEN PAGENUMBER(pg_addr) \notin FixedPages /\ FreePage(pageinfo, PAGENUMBER(pg_addr))
          ELSE pg_addr = NULL

\* a process was forked, one exited, pages were allocated and no page is
\* FREE any more: the search has passed over every fixed entry
C32_Witness ==
    /\ mode = "run"
    /\ forks > 0
    /\ allocs > 0
    /\ \E q \in 1 .. BootProcs : processes[q].p_state = P_FREE
    /\ find_free_physical_page(pageinfo) = NULL
    /\ \A pn \in Pages : ~FreePage(pageinfo, pn)

\* C33: whenever a ledger entry has a positive refcount and a process for
\* owner, the owner references the page: it maps it at some address of its
\* private region, or the page is its level-1 or level-2 table.
C33_OwnerReferencesPage ==
    \A pn \in Pages :
        (pageinfo[pn].refcount > 0 /\ pageinfo[pn].owner >= 1) =>
            \/ MapsAt(pageinfo[pn].owner, pn) # {}
            \/ pn \in RootPages(mem, processes, pageinfo[pn].owner)

\* C34: after the default boot exactly the processes 1 .. BootProcs are
\* RUNNABLE and every other slot is FREE; each process has level-1 and
\* level-2 table pages of its own, owned by its pid with refcount 1, its
\* stack pointer at the top of the virtual address space, and the topmost
\* virtual page mapped present, writable and user-accessible to a page
\* owned by its pid with refcount 1; process 1 is the first to run.
C34_DefaultBoot ==
    last.trap = "boot" =>
        /\ mode = "run"
        /\ current = 1
        /\ \A q \in Pids :
              processes[q].p_state = IF q \in 1 .. BootProcs THEN P_RUNNABLE ELSE P_FREE
        /\ \A q \in 1 .. BootProcs :
              /\ Cardinality(RootPages(mem, processes, q)) = 2
              /\ \A pn \in RootPages(mem, processes, q) :
                    pn \in Pages /\ pageinfo[pn] = [owner |-> q, refcount |-> 1]
              /\ processes[q].reg_esp = MEMSIZE_VIRTUAL
              /\ \E st \in { Lookup(q, MEMSIZE_VIRTUAL - PAGESIZE) } :
                    /\ st.pn \in Pages
                    /\ st.perm = PTE_P + PTE_W + PTE_U
                    /\ pageinfo[st.pn] = [owner |-> q, refcount |-> 1]

\* the state the default boot leaves, BootProcs processes set up
C34_Witness ==
    /\ last.trap = "boot"
    /\ mode = "run"
    /\ processes[BootProcs].p_state = P_RUNNABLE
    /\ Lookup(BootProcs, MEMSIZE_VIRTUAL - PAGESIZE).pn \in Pages

\* C35: no process that is not FREE has a present mapping, in its private
\* region, to a physical page whose ledger entry is FREE with refcount 0.
C35_NoMappingToFreePage ==
    \A pid \in Live(processes) : \A va \in PrivateVas :
        \E vam \in { Lookup(pid, va) } :
            vam.pn \in Pages => ~FreePage(pageinfo, vam.pn)

\* C36: every ledger refcount stays between 0 and NPROC - 1, and so never
\* leaves the range of its signed 8-bit field.
C36_RefcountBounded ==
    \A pn \in Pages : pageinfo[pn].refcount \in 0 .. (NPROC - 1)

\* C37: during fork every ledger entry whose refcount is raised without a
\* change of owner is the entry of a page the parent maps in its private
\* region; for a private page the parent does not map, fork writes no
\* ledger entry, the ledger is never indexed with the page number of the
\* unmapped result, and after a successful fork the child's page is
\* unmapped too.
C37_ForkSharesOnlyMappedPages ==
    [][ForkStep =>
        /\ \A pn \in Pages :
              ( /\ pageinfo'[pn].owner = pageinfo[pn].owner
                /\ pageinfo'[pn].refcount # pageinfo[pn].refcount )
              => MapsAt(current, pn) # {}
        /\ underflow' = underflow
        /\ SuccessfulForkStep =>
              \A va \in PrivateVas :
                  Lookup(current, va).pn = -1 => LookupNext(ForkedChild, va).pn = -1
    ]_vars

\* process q is the one that runs
Running(q) == mode = "run" /\ current = q

\* C38: with timer traps that keep occurring, every process that stays
\* RUNNABLE is resumed again and again, whatever the other processes do.
C38_NoStarvation ==
    \A q \in 1 .. (NPROC - 1) :
        <>[](processes[q].p_state = P_RUNNABLE) => []<>Running(q)

\* ------------------------------------------------------------------------
\* io61.c: the pong client.  Every step of a thread between two places
\* where another thread can run is one action; the server's answers are
\* chosen freely.  A failed assertion ("abort") and the use of a closed
\* connection, whose memory was freed ("undefined"), stop the client.
\* ------------------------------------------------------------------------
\* the kernel of Assign4 takes no part: its variables keep a boot state
InitPong == Boot({"fork"}) /\ PongGlobals /\ main = [pc |-> "loop", pt |-> 0]

Stopped == \E t \in PongThreads : threads[t].pc \in {"abort", "undefined"}

\* the slots get_connection looks at: those holding a connection in state
\* HTTP_DONE, and the empty ones
DoneSlots(pool, conns) ==
    { i \in 0 .. (MAXCONNECT - 1) : pool[i] # NULL /\ conns[pool[i]].state = HTTP_DONE }

NullSlots(pool) == { i \in 0 .. (MAXCONNECT - 1) : pool[i] = NULL }

Lowest(S) == CHOOSE i \in S : \A j \in S : i <= j

\* http_connect: the object made is the lowest one not used yet
http_connect(conns) == Lowest({ c \in ConnIds : conns[c].fd = "none" })

\* returns [conn, connectionpool, connections]; conn = NULL when no slot
\* holds a finished connection and none is empty
get_connection(pool, conns) ==
    IF DoneSlots(pool, conns) # {}
    THEN [conn |-> pool[Lowest(DoneSlots(pool, conns))],
          connectionpool |-> pool, connections |-> conns]
    ELSE IF NullSlots(pool) # {}
    THEN With(http_connect(conns), LAMBDA c :
             [conn |-> c,
              connectionpool |-> [pool EXCEPT ![Lowest(NullSlots(pool))] = c],
              connections |-> [conns EXCEPT ![c] =
                  [fd |-> "open", state |-> HTTP_REQUEST, status_code |-> 0]]])
    ELSE [conn |-> NULL, connectionpool |-> pool, connections |-> conns]

\* thread t is at pc and the client runs
At(t, pc) == ~Stopped /\ threads[t].pc = pc

\* thread t moves to pc, the other threads stay
Goto(t, pc) == threads' = [threads EXCEPT ![t].pc = pc]

\* while ((conn = get_connection(pong_addr)) == NULL) usleep(...)
GetConnection(t) ==
    /\ At(t, "get")
    /\ DoneSlots(connectionpool, connections) # {}
          \/ \E c \in ConnIds : connections[c].fd = "none"
    /\ \E g \in { get_connection(connectionpool, connections) } :
          /\ g.conn # NULL
          /\ connectionpool' = g.connectionpool
          /\ connections' = g.connections
          /\ threads' = [threads EXCEPT ![t].pc = "send", ![t].conn = g.conn]
    /\ UNCHANGED <<threadcnt, main>>
    /\ UNCHANGED vars

\* http_send_request(conn, url)
HttpSendRequest(t) ==
    /\ At(t, "send")
    /\ \E c \in { threads[t].conn } :
          IF connections[c].fd = "closed"
          THEN Goto(t, "undefined") /\ UNCHANGED connections
          ELSE IF connections[c].state \notin {HTTP_REQUEST, HTTP_DONE}
          THEN Goto(t, "abort") /\ UNCHANGED connections
          ELSE /\ connections' = [connections EXCEPT ![c].state = HTTP_INITIAL,
                                                     ![c].status_code = -1]
               /\ Goto(t, "headers")
    /\ UNCHANGED <<connectionpool, threadcnt, main>>
    /\ UNCHANGED vars

\* what the headers of an answer leave in the connection: the status line
\* and the state; a status of 500 or more ends the client and is left out
ServerHeaders ==
    { [state |-> HTTP_BODY, status_code |-> 200],
      [state |-> HTTP_BODY, status_code |-> 404],
      [state |-> HTTP_BROKEN, status_code |-> 200],
      [state |-> HTTP_BROKEN, status_code |-> -1] }

\* http_receive_response_headers(conn); connstat = conn->status_code; the
\* test of connstat
HttpReceiveResponseHeaders(t) ==
    /\ At(t, "headers")
    /\ \E c \in { threads[t].conn } :
          IF connections[c].fd = "closed"
          THEN Goto(t, "undefined") /\ UNCHANGED connections
          ELSE IF connections[c].state = HTTP_REQUEST
          THEN Goto(t, "abort") /\ UNCHANGED connections
          ELSE \E h \in IF connections[c].state < 0
                        THEN { [state |-> connections[c].state,
                                status_code |-> connections[c].status_code] }
                        ELSE ServerHeaders :
                  /\ connections' = [connections EXCEPT ![c].state = h.state,
                                                        ![c].status_code = h.status_code]
                  /\ threads' = [threads EXCEPT
                        ![t].connstat = h.status_code,
                        ![t].pc = IF h.status_code = -1 THEN "close"
                                  ELSE IF h.status_code # 200 THEN "get"
                                  ELSE "signal"]
    /\ UNCHANGED <<connectionpool, threadcnt, main>>
    /\ UNCHANGED vars

\* the status -1 branch: every slot that holds conn is emptied and conn is
\* closed, under connpoolmut; then the thread tries again
CloseConnection(t) ==
    /\ At(t, "close")
    /\ \E c \in { threads[t].conn } :
          /\ connectionpool' = [i \in 0 .. (MAXCONNECT - 1) |->
                                   IF connectionpool[i] = c THEN NULL ELSE connectionpool[i]]
          /\ connections' = IF \E i \in 0 .. (MAXCONNECT - 1) : connectionpool[i] = c
                            THEN [connections EXCEPT ![c].fd = "closed"]
                            ELSE connections
    /\ Goto(t, "get")
    /\ UNCHANGED <<threadcnt, main>>
    /\ UNCHANGED vars

\* pthread_cond_signal(&condvar): wakes the main thread if it waits
CondSignal(t) ==
    /\ At(t, "signal")
    /\ main' = IF main.pc = "wait" THEN [main EXCEPT !.pc = "woken"] ELSE main
    /\ Goto(t, "body")
    /\ UNCHANGED <<connectionpool, connections, threadcnt>>
    /\ UNCHANGED vars

\* the states the body of an answer can leave the connection in
ServerBodies == { HTTP_DONE, HTTP_CLOSED, HTTP_BROKEN }

\* http_receive_response_body(conn), up to the end of its loop
HttpReceiveResponseBody(t) ==
    /\ At(t, "body")
    /\ \E c \in { threads[t].conn } :
          IF connections[c].fd = "closed"
          THEN Goto(t, "undefined") /\ UNCHANGED connections
          ELSE IF connections[c].state >= 0 /\ connections[c].state # HTTP_BODY
          THEN Goto(t, "abort") /\ UNCHANGED connections
          ELSE /\ \E b \in IF connections[c].state < 0
                           THEN { connections[c].state } ELSE ServerBodies :
                      connections' = [connections EXCEPT ![c].state = b]
               /\ Goto(t, "result")
    /\ UNCHANGED <<connectionpool, threadcnt, main>>
    /\ UNCHANGED vars

\* conn->buf[conn->len] = 0; strtod(conn->buf, NULL); --threadcnt;
\* pthread_exit
PongThreadExit(t) ==
    /\ At(t, "result")
    /\ IF connections[threads[t].conn].fd = "closed"
       THEN Goto(t, "undefined") /\ UNCHANGED threadcnt
       ELSE Goto(t, "done") /\ threadcnt' = threadcnt - 1
    /\ UNCHANGED <<connectionpool, connections, main>>
    /\ UNCHANGED vars

pong_thread(t) ==
    \/ GetConnection(t)
    \/ HttpSendRequest(t)
    \/ HttpReceiveResponseHeaders(t)
    \/ CloseConnection(t)
    \/ CondSignal(t)
    \/ HttpReceiveResponseBody(t)
    \/ PongThreadExit(t)

\* main: threadcnt < MAXTHREADS, ++threadcnt, pthread_create
MainCreate ==
    /\ ~Stopped
    /\ main.pc = "loop"
    /\ threadcnt < MAXTHREADS
    /\ main.pt < MaxPongs
    /\ threadcnt' = threadcnt + 1
    /\ threads' = [threads EXCEPT ![main.pt + 1].pc = "get"]
    /\ main' = [pc |-> "lock", pt |-> main.pt + 1]
    /\ UNCHANGED <<connectionpool, connections>>
    /\ UNCHANGED vars

\* main: pthread_mutex_lock(&mutex); pthread_cond_wait(&condvar, &mutex)
\* starts to wait
MainCondWait ==
    /\ ~Stopped
    /\ main.pc = "lock"
    /\ main' = [main EXCEPT !.pc = "wait"]
    /\ UNCHANGED <<connectionpool, connections, threads, threadcnt>>
    /\ UNCHANGED vars

\* main: pthread_cond_wait returns; pthread_mutex_unlock(&mutex); the next
\* position; usleep
MainContinue ==
    /\ ~Stopped
    /\ main.pc = "woken"
    /\ main' = [main EXCEPT !.pc = "loop"]
    /\ UNCHANGED <<connectionpool, connections, threads, threadcnt>>
    /\ UNCHANGED vars

NextPong ==
    \/ MainCreate
    \/ MainCondWait
    \/ MainContinue
    \/ \E t \in PongThreads : pong_thread(t)

SpecPong == InitPong /\ [][NextPong]_pong_vars

\* the places of pong_thread at which the thread holds a connection that
\* get_connection returned to it and still reads or writes it
InUse(t) == threads[t].pc \in {"send", "headers", "close", "signal", "body", "result"}

\* the places of pong_thread before its pthread_cond_signal has been sent
BeforeSignal == {"get", "send", "headers", "close", "signal"}

\* C39: no connection of the pool is in use by two pong threads at the
\* same time, so no assertion on the state of a connection fails and no
\* thread uses a connection that another thread closed.
C39_ConnectionUsedByOneThread ==
    /\ \A t, u \in PongThreads :
          (t # u /\ InUse(t) /\ InUse(u)) => threads[t].conn # threads[u].conn
    /\ \A t \in PongThreads : threads[t].pc # "abort"
    /\ \A t \in PongThreads : threads[t].pc # "undefined"

\* C40: the signal of the thread the main loop created last is never
\* lost: whenever the main thread waits on the condition variable, that
\* thread has not sent its signal yet, so the signal will wake the main
\* thread.
C40_SignalNeverLost ==
    main.pc = "wait" => threads[main.pt].pc \in BeforeSignal

====
